---- MODULE Spec2Model ----
(***************************************************************************)
(* A model of the composition core of tower-async: the concurrency limit   *)
(* middleware (Limit, ConcurrentPolicy, ConcurrentGuard), the consuming    *)
(* classic bridge (ClassicServiceWrapper), the retry middleware (Retry,    *)
(* retry::Policy), the timeout middleware (Timeout) and the re-entrant     *)
(* bridge (AsyncServiceWrapper).                                           *)
(***************************************************************************)
EXTENDS Integers, Sequences, FiniteSets, TLC

(***************************************************************************)
(* Bounds of the model.                                                    *)
(***************************************************************************)
NumCallers == 2
MaxLimit == 2
NumWrappers == 2
MaxRemaining == 2
MaxAttempts == 4
NumTimeouts == 2
NumAsyncCallers == 2
NumLayers == 2
MaxStacked == 3
NumWrapCalls == 2
MaxRequests == 3
NumLimited == 2
MaxRedirects == 2

\* The Limit services built from one LimitLayer; each runs at most one call
\* at a time (call takes &mut self).
Callers == 1..NumCallers
\* A task that uses the ConcurrentPolicy directly (as the unit test
\* concurrent_policy does): it calls check() and drops the guards it holds.
Direct == 0
Tasks == Callers \cup {Direct}

VARIABLES
    \* ---- limit: ConcurrentPolicy shared by all clones
    max,        \* ConcurrentPolicy.max
    backoff,    \* TRUE: ConcurrentPolicy<B> (with_backoff), FALSE: ConcurrentPolicy<()>
    current,    \* the value inside Arc<Mutex<usize>>
    mutex,      \* the tasks holding the std::sync::Mutex around current ({} when free)
    \* ---- limit: the tasks
    pc,         \* position of each task
    held,       \* number of live ConcurrentGuards each task owns
    drops,      \* how often the guard of a caller's present call ran its decrement
    outcome,    \* what the present / last Limit::call of a caller returned
    backoffFut, \* the future carried by the last Retry the caller's call received
    \* ---- limit: the executor
    running     \* the tasks a worker thread is polling right now

limitVars == <<max, backoff, current, mutex, pc, held, drops, outcome, backoffFut, running>>

VARIABLES
    \* ---- bridge: ClassicServiceWrapper instances
    exists,     \* the wrapper instances created so far
    variant,    \* which implementation an instance is (the file it comes from)
    inner,      \* ClassicServiceWrapper.inner: Option<S>, "Some" or "None"
    fut,        \* the boxed future returned by the call that took the service
    ready,      \* what the last poll_ready returned
    called,     \* whether call() has been made on the instance
    lateUse,    \* what the last use made after the first call yielded
    innerCalls  \* how often the wrapped service's call was invoked

bridgeVars == <<exists, variant, inner, fut, ready, called, lateUse, innerCalls>>

VARIABLES
    \* ---- retry: one Retry<P, S> service
    policy,     \* Retry.policy
    policy0,    \* the policy as it was when the present call began
    rpc,        \* position of Retry::call
    request,    \* the local `request`
    cloned,     \* the local `cloned`: <<>> for None, <<r>> for Some(r)
    result,     \* the local `result`
    seen,       \* the requests the inner service received, in order
    results,    \* the results the inner service produced, in order
    retries,    \* how often policy.retry was invoked in the present call
    trues       \* how often policy.retry asked for another attempt

retryVars == <<policy, policy0, rpc, request, cloned, result, seen, results, retries, trues>>

VARIABLES
    \* ---- timeout: Timeout<S> services, each running at most one call
    tpc,        \* position of Timeout::call
    innerFut,   \* the future of self.inner.call(request) inside select!
    innerOut,   \* what the inner call has produced for its next poll to find
    sleepFut,   \* the future of tokio::time::sleep(self.timeout) inside select!
    deadline,   \* whether the deadline of the sleep has passed
    tresult     \* what Timeout::call returned

timeoutVars == <<tpc, innerFut, innerOut, sleepFut, deadline, tresult>>

VARIABLES
    \* ---- bridge: one AsyncServiceWrapper shared by several callers
    apc,        \* position of each caller in AsyncServiceWrapper::call
    amutex,     \* the callers holding the async_lock::Mutex around the service
    aout,       \* how the present / last call of a caller ended
    lastOp      \* the last operation made on the wrapped classic service

asyncVars == <<apc, amutex, aout, lastOp>>

VARIABLES
    \* ---- builder: one ServiceBuilder, the service it builds, one call
    blayer,     \* ServiceBuilder.layer
    declared,   \* the layers given to ServiceBuilder::layer, in call order
    bsvc,       \* the service returned by ServiceBuilder::service
    bdir,       \* where the present call through that service is heading
    bdepth,     \* how many middleware the present call is inside of
    btrace      \* what the middleware and the terminal service saw, in order

builderVars == <<blayer, declared, bsvc, bdir, bdepth, btrace>>
\* tower-async-hyper, filter/mod.rs: which wrapper it is, where its call is,
\* the request it was given, the predicate's answer, the requests the inner
\* service received, the inner result and the result returned.
VARIABLES wkind, wpc, wreq, wchk, wseen, win, wout
wrapVars == <<wkind, wpc, wreq, wchk, wseen, win, wout>>
\* tower-async-http: request_id.rs (the Counter of its tests and what
\* SetRequestId did with each request) and follow_redirect/policy/limited.rs
\* (the shared counter, the limit it was built with, the answers given).
VARIABLES counter, handled, remaining, limit, answers
httpVars == <<counter, handled, remaining, limit, answers>>

vars == <<limitVars, bridgeVars, retryVars, timeoutVars, asyncVars, builderVars, wrapVars, httpVars>>

\* A step of one component leaves the other components as they are.
RestL == UNCHANGED <<bridgeVars, retryVars, timeoutVars, asyncVars, builderVars, wrapVars, httpVars>>
RestB == UNCHANGED <<limitVars, retryVars, timeoutVars, asyncVars, builderVars, wrapVars, httpVars>>
RestR == UNCHANGED <<limitVars, bridgeVars, timeoutVars, asyncVars, builderVars, wrapVars, httpVars>>
RestT == UNCHANGED <<limitVars, bridgeVars, retryVars, asyncVars, builderVars, wrapVars, httpVars>>
RestA == UNCHANGED <<limitVars, bridgeVars, retryVars, timeoutVars, builderVars, wrapVars, httpVars>>
RestS == UNCHANGED <<limitVars, bridgeVars, retryVars, timeoutVars, asyncVars, wrapVars, httpVars>>
RestW == UNCHANGED <<limitVars, bridgeVars, retryVars, timeoutVars, asyncVars, builderVars, httpVars>>
RestH == UNCHANGED <<limitVars, bridgeVars, retryVars, timeoutVars, asyncVars, builderVars, wrapVars>>

(***************************************************************************)
(* limit/policy/concurrent.rs                                              *)
(***************************************************************************)

\* ConcurrentPolicy::new(max) / ConcurrentPolicy::with_backoff(max, backoff)
PolicyNew(m, b) ==
    /\ max = m
    /\ backoff = b
    /\ current = 0
    /\ mutex = {}

\* self.current.lock(): the calling task proceeds only when no task holds
\* the mutex.
NoMutex(t) == TRUE
MutexAvailable(t) == mutex = {}

\* `if *current < self.max`
AdmitsOffByOne(cur, mx) == cur <= mx
AdmitsReversed(cur, mx) == cur > mx
Admits(cur, mx) == cur < mx

\* What a refused check returns: Abort(LimitReached) for ConcurrentPolicy<()>,
\* Retry(backoff.next_backoff()) for ConcurrentPolicy<B>.
RefusalRetry(b) == "Retry"
Refusal(b) == IF b THEN "Retry" ELSE "Abort"

\* ConcurrentGuard::drop: `*current -= 1`
DecrementNone(cur) == cur
Decrement(cur) == cur - 1

\* check(): `let mut current = self.current.lock().unwrap();`
check_lock(t) ==
    /\ pc[t] = "check"
    /\ MutexAvailable(t)
    /\ mutex' = {t}
    /\ pc' = [pc EXCEPT ![t] = "locked"]
    /\ UNCHANGED <<max, backoff, current, held, drops, outcome, backoffFut, running>>
    /\ RestL

\* Where a caller goes once its guard has gone out of scope.
AfterDrop(t) == IF t = Direct THEN "idle" ELSE "done"

\* What the Retry arm of Limit::call does with the future the policy
\* returned: `policy::PolicyOutput::Retry => ()` neither binds nor awaits it,
\* so it is destroyed unpolled and the loop goes on.
RetryArm(f) == "dropped"

\* check(): the test under the lock.  A refused check releases the lock and
\* returns Abort or Retry(self.backoff.next_backoff()); Limit::call returns
\* Err on Abort and loops straight back to check on Retry.
check_test(t) ==
    /\ pc[t] = "locked"
    /\ IF Admits(current, max)
         THEN /\ pc' = [pc EXCEPT ![t] = "incr"]
              /\ UNCHANGED <<mutex, outcome, backoffFut>>
         ELSE /\ mutex' = {}
              /\ IF t = Direct
                   THEN /\ pc' = [pc EXCEPT ![t] = "idle"]
                        /\ UNCHANGED <<outcome, backoffFut>>
                   ELSE IF Refusal(backoff) = "Abort"
                          THEN /\ pc' = [pc EXCEPT ![t] = "done"]
                               /\ outcome' = [outcome EXCEPT ![t] = "LimitReached"]
                               /\ UNCHANGED backoffFut
                          ELSE /\ pc' = [pc EXCEPT ![t] = "check"]
                               /\ backoffFut' = [backoffFut EXCEPT ![t] = RetryArm("pending")]
                               /\ UNCHANGED outcome
    /\ UNCHANGED <<max, backoff, current, held, drops, running>>
    /\ RestL

\* check(): `*current += 1; PolicyOutput::Ready(ConcurrentGuard { .. })`,
\* then the MutexGuard goes out of scope.  In Limit::call the guard stays
\* bound for the whole Ready arm, so the caller awaits the inner service
\* while owning it.
check_incr(t) ==
    /\ pc[t] = "incr"
    /\ current' = current + 1
    /\ held' = [held EXCEPT ![t] = @ + 1]
    /\ mutex' = {}
    /\ pc' = [pc EXCEPT ![t] = IF t = Direct THEN "idle" ELSE "inner"]
    /\ UNCHANGED <<max, backoff, drops, outcome, backoffFut, running>>
    /\ RestL

\* ConcurrentGuard::drop: `let mut current = self.current.lock().unwrap();`
drop_lock(t) ==
    /\ pc[t] = "drop"
    /\ MutexAvailable(t)
    /\ mutex' = {t}
    /\ pc' = [pc EXCEPT ![t] = "decr"]
    /\ UNCHANGED <<max, backoff, current, held, drops, outcome, backoffFut, running>>
    /\ RestL

\* ConcurrentGuard::drop: `*current -= 1;`, then the MutexGuard goes out of
\* scope and the ConcurrentGuard is gone.
drop_decr(t) ==
    /\ pc[t] = "decr"
    /\ current' = Decrement(current)
    /\ held' = [held EXCEPT ![t] = @ - 1]
    /\ drops' = [drops EXCEPT ![t] = IF t = Direct THEN @ ELSE @ + 1]
    /\ mutex' = {}
    /\ pc' = [pc EXCEPT ![t] = AfterDrop(t)]
    /\ UNCHANGED <<max, backoff, outcome, backoffFut, running>>
    /\ RestL

(***************************************************************************)
(* limit/mod.rs, limit/layer.rs                                            *)
(***************************************************************************)

\* Limit::call is entered: `loop { match self.policy.check(..).await`
LimitCall(t) ==
    /\ t \in Callers
    /\ pc[t] = "idle"
    /\ pc' = [pc EXCEPT ![t] = "check"]
    /\ drops' = [drops EXCEPT ![t] = 0]
    /\ outcome' = [outcome EXCEPT ![t] = "none"]
    /\ backoffFut' = [backoffFut EXCEPT ![t] = "none"]
    /\ UNCHANGED <<max, backoff, current, mutex, held, running>>
    /\ RestL

\* What the inner service of a Limit may answer: Ok, an error of a type of
\* its own, or an error whose type is LimitReached (S::Error is any type
\* that converts into BoxError; a Limit inside a Limit returns such errors).
InnerAnswers == {"Ok", "Err", "InnerLimitReached"}

\* `Err(err.into())` and `.map_err(Into::into)`: the error is boxed as a
\* BoxError, which keeps its concrete type and nothing of where it came
\* from; this is the type a downcast by an outer middleware finds.
IntoBoxErrorOpaque(o) == IF o \in {"LimitReached", "InnerLimitReached"} THEN "Err" ELSE o
IntoBoxError(o) == IF o \in {"LimitReached", "InnerLimitReached"} THEN "LimitReached" ELSE o

\* `return self.inner.call(request).await.map_err(Into::into)`: the inner
\* call resolves with Ok or Err; the guard is dropped on the way out.
InnerResolve(t, r) ==
    /\ t \in Callers
    /\ pc[t] = "inner"
    /\ outcome' = [outcome EXCEPT ![t] = r]
    /\ pc' = [pc EXCEPT ![t] = "drop"]
    /\ UNCHANGED <<max, backoff, current, mutex, held, drops, backoffFut, running>>
    /\ RestL

\* Where the future of Limit::call goes when it is dropped while awaiting
\* the inner call: its locals, the guard among them, are destroyed.
CancelLeak(t) == "done"
CancelTo(t) == "drop"

\* The future of Limit::call is dropped at its only suspension point, the
\* await of the inner call (e.g. the losing branch of Timeout's select!).
Cancel(t) ==
    /\ t \in Callers
    /\ pc[t] = "inner"
    /\ outcome' = [outcome EXCEPT ![t] = "Cancelled"]
    /\ pc' = [pc EXCEPT ![t] = CancelTo(t)]
    /\ UNCHANGED <<max, backoff, current, mutex, held, drops, backoffFut, running>>
    /\ RestL

\* The call is over; the service may be called again.
LimitReturn(t) ==
    /\ t \in Callers
    /\ pc[t] = "done"
    /\ pc' = [pc EXCEPT ![t] = "idle"]
    /\ UNCHANGED <<max, backoff, current, mutex, held, drops, outcome, backoffFut, running>>
    /\ RestL

\* The direct user of the policy calls check().
DirectCheck ==
    /\ pc[Direct] = "idle"
    /\ pc' = [pc EXCEPT ![Direct] = "check"]
    /\ UNCHANGED <<max, backoff, current, mutex, held, drops, outcome, backoffFut, running>>
    /\ RestL

\* The direct user of the policy drops one of the guards it holds.
DirectDrop ==
    /\ pc[Direct] = "idle"
    /\ held[Direct] > 0
    /\ pc' = [pc EXCEPT ![Direct] = "drop"]
    /\ UNCHANGED <<max, backoff, current, mutex, held, drops, outcome, backoffFut, running>>
    /\ RestL

\* LimitLayer::new(policy) and LimitLayer::layer for each caller: every
\* Limit holds a clone of the policy, i.e. the same counter.
LimitAt(m, b) ==
    /\ PolicyNew(m, b)
    /\ pc = [t \in Tasks |-> "idle"]
    /\ held = [t \in Tasks |-> 0]
    /\ drops = [t \in Tasks |-> 0]
    /\ outcome = [t \in Tasks |-> "none"]
    /\ backoffFut = [t \in Tasks |-> "none"]
    /\ running = {}

InitLimit == \E m \in 0..MaxLimit, b \in BOOLEAN : LimitAt(m, b)

NextLimit ==
    \/ \E t \in Tasks : check_lock(t)
    \/ \E t \in Tasks : check_test(t)
    \/ \E t \in Tasks : check_incr(t)
    \/ \E t \in Tasks : drop_lock(t)
    \/ \E t \in Tasks : drop_decr(t)
    \/ \E t \in Callers : LimitCall(t)
    \/ \E t \in Callers, r \in InnerAnswers : InnerResolve(t, r)
    \/ \E t \in Callers : Cancel(t)
    \/ \E t \in Callers : LimitReturn(t)
    \/ DirectCheck
    \/ DirectDrop

(***************************************************************************)
(* The same calls as futures polled by one worker thread, as in test_limit *)
(* (#[tokio::test], join_all): a polled future runs without preemption up  *)
(* to its next suspension point.  Limit::call has a single one, the await  *)
(* of the inner call; check() and the guard's drop contain none.           *)
(***************************************************************************)

\* The worker is polling the future of t's call.
Polled(t) == running = {t}

\* The worker picks a future that has not returned yet and polls it.
Schedule(t) ==
    /\ t \in Callers
    /\ running = {}
    /\ pc[t] # "done"
    /\ running' = {t}
    /\ UNCHANGED <<max, backoff, current, mutex, pc, held, drops, outcome, backoffFut>>
    /\ RestL

\* The poll of t's future returns: Pending at the await of the inner call,
\* Ready once Limit::call has returned.
Suspend(t) ==
    /\ Polled(t)
    /\ pc[t] \in {"inner", "done"}
    /\ running' = {}
    /\ UNCHANGED <<max, backoff, current, mutex, pc, held, drops, outcome, backoffFut>>
    /\ RestL

PollLimitCall(t) == Polled(t) /\ LimitCall(t)
PollCheckLock(t) == Polled(t) /\ check_lock(t)
PollCheckTest(t) == Polled(t) /\ check_test(t)
PollCheckIncr(t) == Polled(t) /\ check_incr(t)
\* handle_request of test_limit: the echoing inner service never fails.
PollInnerResolve(t) == Polled(t) /\ InnerResolve(t, "Ok")
PollDropLock(t) == Polled(t) /\ drop_lock(t)
PollDropDecr(t) == Polled(t) /\ drop_decr(t)

\* One step of the future of t's call while the worker polls it.
PollStep(t) ==
    \/ PollLimitCall(t)
    \/ PollCheckLock(t)
    \/ PollCheckTest(t)
    \/ PollCheckIncr(t)
    \/ PollInnerResolve(t)
    \/ PollDropLock(t)
    \/ PollDropDecr(t)

NextLimitCoop ==
    \/ \E t \in Callers : Schedule(t)
    \/ \E t \in Callers : Suspend(t)
    \/ \E t \in Callers : PollStep(t)

\* The executor is fair: a future that can be polled again and again is
\* polled, and a polled future goes on running.
FairLimitCoop ==
    \A t \in Callers : SF_vars(Schedule(t)) /\ SF_vars(PollStep(t)) /\ WF_vars(Suspend(t))

RECURSIVE SumOver(_, _)
SumOver(f, S) == IF S = {} THEN 0
                 ELSE LET x == CHOOSE y \in S : TRUE
                      IN f[x] + SumOver(f, S \ {x})

\* The number of ConcurrentGuards that exist and have not run their decrement.
LiveGuards == SumOver(held, Tasks)

\* The inner-service calls that have started and not yet resolved.
InFlight == {t \in Callers : pc[t] = "inner"}

(***************************************************************************)
(* tower-async-bridge: classic_wrapper.rs and into_classic/classic_wrapper.rs *)
(***************************************************************************)

Wrappers == 1..NumWrappers
Variants == {"classic_wrapper", "into_classic"}
Requests == {"hello", "retrying"}
NoFuture == [st |-> "none", req |-> "none"]

\* ClassicServiceWrapper::poll_ready of classic_wrapper.rs:
\* Ok(()) if self.inner.is_some(), Err(ServiceConsumed) otherwise.
poll_ready_classic_wrapper(opt) == IF opt = "Some" THEN "Ok" ELSE "ServiceConsumed"

\* ClassicServiceWrapper::poll_ready of into_classic/classic_wrapper.rs:
\* always Poll::Ready(Ok(())).
poll_ready_into_classic(opt) == "Ok"

\* Option::take as used by call: what is left in self.inner.
TakeKeeps(opt) == opt
Take(opt) == "None"

\* How the future maps the inner service's error: wrapped in ServiceError by
\* classic_wrapper.rs, passed on as it is by into_classic/classic_wrapper.rs.
MapErr(v) == IF v = "classic_wrapper" THEN "ServiceError" ELSE "Err"

\* ClassicServiceWrapper::new(inner), the first instance.
BridgeAt(v) ==
    /\ exists = {1}
    /\ variant = [w \in Wrappers |-> v]
    /\ inner = [w \in Wrappers |-> "Some"]
    /\ fut = [w \in Wrappers |-> NoFuture]
    /\ ready = [w \in Wrappers |-> "none"]
    /\ called = [w \in Wrappers |-> FALSE]
    /\ lateUse = [w \in Wrappers |-> "none"]
    /\ innerCalls = [w \in Wrappers |-> 0]

InitBridge == \E v \in Variants : BridgeAt(v)

\* `inner: self.inner.clone()`: Option::clone gives Some(clone) for Some and
\* None for None.
CloneAvailable(opt) == "Some"
Clone(opt) == opt

\* ClassicServiceWrapper::clone (S: Clone): the new instance gets a clone of
\* the Option.
WrapperClone(w, n) ==
    /\ w \in exists
    /\ n \notin exists
    /\ exists' = exists \cup {n}
    /\ inner' = [inner EXCEPT ![n] = Clone(inner[w])]
    /\ UNCHANGED <<variant, fut, ready, called, lateUse, innerCalls>>
    /\ RestB

\* ClassicServiceWrapper::poll_ready
poll_ready(w) ==
    /\ w \in exists
    /\ LET r == IF variant[w] = "classic_wrapper"
                  THEN poll_ready_classic_wrapper(inner[w])
                  ELSE poll_ready_into_classic(inner[w])
       IN /\ ready' = [ready EXCEPT ![w] = r]
          /\ lateUse' = [lateUse EXCEPT ![w] = IF called[w] THEN r ELSE @]
    /\ UNCHANGED <<exists, variant, inner, fut, called, innerCalls>>
    /\ RestB

\* ClassicServiceWrapper::call:
\* `self.inner.take().expect("service must be present")`, then the future is
\* boxed and returned; nothing of the inner service runs before it is polled.
call(w, req) ==
    /\ w \in exists
    /\ inner' = [inner EXCEPT ![w] = Take(@)]
    /\ called' = [called EXCEPT ![w] = TRUE]
    /\ IF inner[w] = "Some"
         THEN /\ fut' = [fut EXCEPT ![w] = [st |-> "created", req |-> req]]
              /\ lateUse' = [lateUse EXCEPT ![w] = IF called[w] THEN "future" ELSE @]
         ELSE /\ lateUse' = [lateUse EXCEPT ![w] = "panic"]
              /\ UNCHANGED fut
    /\ UNCHANGED <<exists, variant, ready, innerCalls>>
    /\ RestB

\* First poll of the returned future: `service.call(request)` is invoked.
FuturePoll(w) ==
    /\ w \in exists
    /\ fut[w].st = "created"
    /\ fut' = [fut EXCEPT ![w].st = "running"]
    /\ innerCalls' = [innerCalls EXCEPT ![w] = @ + 1]
    /\ UNCHANGED <<exists, variant, inner, ready, called, lateUse>>
    /\ RestB

\* The inner call resolves: Ok(r) is passed on, Err(e) goes through map_err.
FutureResolve(w, ok) ==
    /\ w \in exists
    /\ fut[w].st = "running"
    /\ fut' = [fut EXCEPT ![w].st = IF ok THEN "Ok" ELSE MapErr(variant[w])]
    /\ UNCHANGED <<exists, variant, inner, ready, called, lateUse, innerCalls>>
    /\ RestB

\* The returned future is dropped before it resolved; the service it owns is
\* dropped with it.
FutureDrop(w) ==
    /\ w \in exists
    /\ fut[w].st \in {"created", "running"}
    /\ fut' = [fut EXCEPT ![w].st = "dropped"]
    /\ UNCHANGED <<exists, variant, inner, ready, called, lateUse, innerCalls>>
    /\ RestB

NextBridge ==
    \/ \E w \in Wrappers, n \in Wrappers : WrapperClone(w, n)
    \/ \E w \in Wrappers : poll_ready(w)
    \/ \E w \in Wrappers, req \in Requests : call(w, req)
    \/ \E w \in Wrappers : FuturePoll(w)
    \/ \E w \in Wrappers, ok \in BOOLEAN : FutureResolve(w, ok)
    \/ \E w \in Wrappers : FutureDrop(w)

(***************************************************************************)
(* retry/mod.rs, retry/policy.rs and the policies of tests/retry/main.rs   *)
(***************************************************************************)

Ok(v) == [ok |-> TRUE, val |-> v]
Err(e) == [ok |-> FALSE, val |-> e]
NoResult == [ok |-> FALSE, val |-> "none"]
\* What the mocked inner service may answer to one attempt.
InnerResults == {Ok("world"), Err("retry"), Err("reject")}

Policies ==
    {[kind |-> k, n |-> 0] : k \in {"RetryErrors", "UnlessErr", "CannotClone"}}
    \cup {[kind |-> k, n |-> n] : k \in {"Limit", "MutatingPolicy"}, n \in 0..MaxRemaining}

\* Policy::clone_request of the test policies: Some(*req), and None for
\* CannotClone.
clone_request(p, req) == IF p.kind = "CannotClone" THEN <<>> ELSE <<req>>

\* Policy::retry of the test policies, given the policy, the request it is
\* handed and the result: whether to retry, and what it leaves in the
\* policy, in the request and in the result.  CannotClone::retry is
\* unreachable!().
PolicyRetry(p, req, res) ==
    LET keep == [retry |-> FALSE, policy |-> p, req |-> req, result |-> res,
                 panics |-> FALSE]
    IN CASE p.kind = "RetryErrors" -> [keep EXCEPT !.retry = ~res.ok]
         [] p.kind = "Limit" ->
              IF ~res.ok /\ p.n > 0
                THEN [keep EXCEPT !.retry = TRUE, !.policy = [p EXCEPT !.n = @ - 1]]
                ELSE keep
         [] p.kind = "UnlessErr" -> [keep EXCEPT !.retry = ~res.ok /\ res.val # "reject"]
         [] p.kind = "CannotClone" -> [keep EXCEPT !.panics = TRUE]
         [] p.kind = "MutatingPolicy" ->
              IF p.n = 0
                THEN [keep EXCEPT !.result = Err("out of retries")]
                ELSE [keep EXCEPT !.retry = TRUE, !.req = <<"retrying">>,
                                  !.policy = [p EXCEPT !.n = @ - 1]]

\* Retry::new(policy, service)
RetryAt(p) ==
    /\ policy = p
    /\ policy0 = p
    /\ rpc = "idle"
    /\ request = "none"
    /\ cloned = <<>>
    /\ result = NoResult
    /\ seen = <<>>
    /\ results = <<>>
    /\ retries = 0
    /\ trues = 0

InitRetry == \E p \in Policies : RetryAt(p)

\* Retry::call is entered:
\* `let cloned = self.policy.clone_request(&request);`
RetryCall(req) ==
    /\ rpc = "idle"
    /\ request' = req
    /\ cloned' = clone_request(policy, req)
    /\ policy0' = policy
    /\ result' = NoResult
    /\ seen' = <<>>
    /\ results' = <<>>
    /\ retries' = 0
    /\ trues' = 0
    /\ rpc' = "loop"
    /\ UNCHANGED policy
    /\ RestR

\* The request an attempt sends: the loop passes the local `request`, which
\* nothing assigns after the call was entered.
NextRequest(orig, cl) == orig

\* `self.service.call(request)`: the inner service receives the request.
ServiceCall ==
    /\ rpc = "loop"
    /\ Len(seen) < MaxAttempts
    /\ seen' = Append(seen, NextRequest(request, cloned))
    /\ rpc' = "inner"
    /\ UNCHANGED <<policy, policy0, request, cloned, result, results, retries, trues>>
    /\ RestR

\* `.await`: the inner call resolves.
ServiceResolve(r) ==
    /\ rpc = "inner"
    /\ result' = r
    /\ results' = Append(results, r)
    /\ rpc' = "consult"
    /\ UNCHANGED <<policy, policy0, request, cloned, seen, retries, trues>>
    /\ RestR

\* `Some(_) => continue, None => return result`
NeverAgain(b) == FALSE
RetryAgain(b) == b

\* What `result` holds after `self.policy.retry(&cloned, &mut result)`.
ResultUntouched(res, ans) == res
ResultLeft(res, ans) == ans.result

\* `match self.policy.retry(&cloned, &mut result).await`: the policy is
\* consulted after every attempt, whatever `cloned` holds; `cloned` is
\* borrowed immutably, so what the policy does to the request is not kept.
PolicyConsult ==
    /\ rpc = "consult"
    /\ LET ans == PolicyRetry(policy, cloned, result)
       IN /\ retries' = retries + 1
          /\ policy' = ans.policy
          /\ IF ans.panics
               THEN /\ rpc' = "panicked"
                    /\ UNCHANGED <<result, trues>>
               ELSE /\ result' = ResultLeft(result, ans)
                    /\ trues' = IF ans.retry THEN trues + 1 ELSE trues
                    /\ rpc' = IF RetryAgain(ans.retry) THEN "loop" ELSE "done"
    /\ UNCHANGED <<policy0, request, cloned, seen, results>>
    /\ RestR

\* The call has returned (or its panic was caught); the service may be
\* called again.
RetryReturn ==
    /\ rpc \in {"done", "panicked"}
    /\ rpc' = "idle"
    /\ UNCHANGED <<policy, policy0, request, cloned, result, seen, results, retries, trues>>
    /\ RestR

NextRetry ==
    \/ \E req \in Requests : RetryCall(req)
    \/ ServiceCall
    \/ \E r \in InnerResults : ServiceResolve(r)
    \/ PolicyConsult
    \/ RetryReturn

(***************************************************************************)
(* timeout/mod.rs                                                          *)
(***************************************************************************)

Timeouts == 1..NumTimeouts

NoOutcome == [kind |-> "none", val |-> "none", boxed |-> FALSE]
\* Ok(response) and Err(e) of the inner service, e of its own error type.
Response(v) == [kind |-> "Ok", val |-> v, boxed |-> FALSE]
NativeError(e) == [kind |-> "Err", val |-> e, boxed |-> FALSE]
\* Err(e.into()): the error as a BoxError, Box<dyn Error + Send + Sync>.
BoxError(e) == [kind |-> "Err", val |-> e, boxed |-> TRUE]
\* `Err(Elapsed(()).into())`
Elapsed == BoxError("Elapsed")

InnerOutcomes == {Response("world"), NativeError("reject")}

\* `res.map_err(Into::into)`
map_err_elapsed(res) == IF res.kind = "Err" THEN Elapsed ELSE res
map_err_into(res) == IF res.kind = "Err" THEN BoxError(res.val) ELSE res

\* select! leaves: the futures of the branches that did not complete are
\* destroyed with it.
LoserKept(f) == f
Loser(f) == "dropped"

\* One poll of select!: the branches are polled in turn, starting with
\* `first` (select! picks the start at random); the first one found ready
\* completes the select!, "none" when the poll returns Pending.
Winner(first, innerReady, sleepReady) ==
    IF first = "inner"
      THEN IF innerReady THEN "inner" ELSE IF sleepReady THEN "sleep" ELSE "none"
      ELSE IF sleepReady THEN "sleep" ELSE IF innerReady THEN "inner" ELSE "none"

\* Timeout::new(inner, timeout)
TimeoutAt ==
    /\ tpc = [s \in Timeouts |-> "idle"]
    /\ innerFut = [s \in Timeouts |-> "none"]
    /\ innerOut = [s \in Timeouts |-> NoOutcome]
    /\ sleepFut = [s \in Timeouts |-> "none"]
    /\ deadline = [s \in Timeouts |-> FALSE]
    /\ tresult = [s \in Timeouts |-> NoOutcome]

\* Timeout::call is entered: select! builds both futures.
TimeoutCall(s) ==
    /\ tpc[s] = "idle"
    /\ tpc' = [tpc EXCEPT ![s] = "select"]
    /\ innerFut' = [innerFut EXCEPT ![s] = "pending"]
    /\ innerOut' = [innerOut EXCEPT ![s] = NoOutcome]
    /\ sleepFut' = [sleepFut EXCEPT ![s] = "pending"]
    /\ deadline' = [deadline EXCEPT ![s] = FALSE]
    /\ tresult' = [tresult EXCEPT ![s] = NoOutcome]
    /\ RestT

\* The inner service finishes its work: the next poll of its future will
\* return Ready(r).
InnerCompletes(s, r) ==
    /\ innerFut[s] = "pending"
    /\ innerOut[s] = NoOutcome
    /\ innerOut' = [innerOut EXCEPT ![s] = r]
    /\ UNCHANGED <<tpc, innerFut, sleepFut, deadline, tresult>>
    /\ RestT

\* self.timeout has gone by: the next poll of the sleep will return Ready.
DeadlinePasses(s) ==
    /\ sleepFut[s] = "pending"
    /\ ~deadline[s]
    /\ deadline' = [deadline EXCEPT ![s] = TRUE]
    /\ UNCHANGED <<tpc, innerFut, innerOut, sleepFut, tresult>>
    /\ RestT

\* A poll of select! that finds a branch ready: the inner branch yields
\* res.map_err(Into::into), the sleep branch Err(Elapsed(()).into()).
SelectPoll(s, first) ==
    /\ tpc[s] = "select"
    /\ LET w == Winner(first, innerOut[s] # NoOutcome, deadline[s])
       IN /\ w # "none"
          /\ IF w = "inner"
               THEN /\ tresult' = [tresult EXCEPT ![s] = map_err_into(innerOut[s])]
                    /\ innerFut' = [innerFut EXCEPT ![s] = "ready"]
                    /\ sleepFut' = [sleepFut EXCEPT ![s] = Loser(@)]
               ELSE /\ tresult' = [tresult EXCEPT ![s] = Elapsed]
                    /\ sleepFut' = [sleepFut EXCEPT ![s] = "ready"]
                    /\ innerFut' = [innerFut EXCEPT ![s] = Loser(@)]
    /\ tpc' = [tpc EXCEPT ![s] = "done"]
    /\ UNCHANGED <<innerOut, deadline>>
    /\ RestT

\* The caller has its result; the service may be called again.
TimeoutReturn(s) ==
    /\ tpc[s] = "done"
    /\ tpc' = [tpc EXCEPT ![s] = "idle"]
    /\ UNCHANGED <<innerFut, innerOut, sleepFut, deadline, tresult>>
    /\ RestT

NextTimeout ==
    \/ \E s \in Timeouts : TimeoutCall(s)
    \/ \E s \in Timeouts, r \in InnerOutcomes : InnerCompletes(s, r)
    \/ \E s \in Timeouts : DeadlinePasses(s)
    \/ \E s \in Timeouts, first \in {"inner", "sleep"} : SelectPoll(s, first)
    \/ \E s \in Timeouts : TimeoutReturn(s)

(***************************************************************************)
(* tower-async-http: timeout/service.rs.  Its call is the same select!     *)
(* over the inner call and tokio::time::sleep(self.timeout) as above; only *)
(* the two arms differ.                                                    *)
(***************************************************************************)

\* The sleep arm: `let mut res = Response::new(ResBody::default());
\* *res.status_mut() = StatusCode::REQUEST_TIMEOUT; Ok(res)`
REQUEST_TIMEOUT_AS_ERROR(body) == Elapsed
REQUEST_TIMEOUT(body) == Response("408 Request Timeout")

\* A poll of select! that finds a branch ready: the inner arm yields `res`
\* as it is, the sleep arm the 408 response.
HttpSelectPoll(s, first) ==
    /\ tpc[s] = "select"
    /\ LET w == Winner(first, innerOut[s] # NoOutcome, deadline[s])
       IN /\ w # "none"
          /\ IF w = "inner"
               THEN /\ tresult' = [tresult EXCEPT ![s] = innerOut[s]]
                    /\ innerFut' = [innerFut EXCEPT ![s] = "ready"]
                    /\ sleepFut' = [sleepFut EXCEPT ![s] = Loser(@)]
               ELSE /\ tresult' = [tresult EXCEPT ![s] = REQUEST_TIMEOUT("default")]
                    /\ sleepFut' = [sleepFut EXCEPT ![s] = "ready"]
                    /\ innerFut' = [innerFut EXCEPT ![s] = Loser(@)]
    /\ tpc' = [tpc EXCEPT ![s] = "done"]
    /\ UNCHANGED <<innerOut, deadline>>
    /\ RestT

NextHttpTimeout ==
    \/ \E s \in Timeouts : TimeoutCall(s)
    \/ \E s \in Timeouts, r \in InnerOutcomes : InnerCompletes(s, r)
    \/ \E s \in Timeouts : DeadlinePasses(s)
    \/ \E s \in Timeouts, first \in {"inner", "sleep"} : HttpSelectPoll(s, first)
    \/ \E s \in Timeouts : TimeoutReturn(s)

(***************************************************************************)
(* tower-async-bridge: into_async/async_wrapper.rs                         *)
(***************************************************************************)

\* The tasks calling through one AsyncServiceWrapper (call takes &self, and
\* clones share the Arc).
AsyncCallers == 1..NumAsyncCallers

NoOp == [by |-> 0, op |-> "none"]

\* self.inner.lock().await completes only while nobody holds the mutex.
AsyncMutexIgnored(c) == TRUE
AsyncMutexFree(c) == amutex = {}

\* The MutexGuard is a temporary of the one expression of call: it is
\* destroyed when the expression ends, by `?` or with the response.
HeldAtEnd(c) == amutex
ReleaseAtEnd(c) == amutex \ {c}

\* The future of call is dropped: the MutexGuard it holds, if any, goes
\* with it.
KeptOnDrop(c) == amutex
ReleaseOnDrop(c) == amutex \ {c}

\* The suspension point at which the future of call was dropped.
DroppedAt(at) ==
    IF at = "lock" THEN "CancelledWaiting"
    ELSE IF at = "ready" THEN "CancelledInReady" ELSE "CancelledInCall"

\* AsyncServiceWrapper::new(inner)
AsyncAt ==
    /\ apc = [c \in AsyncCallers |-> "idle"]
    /\ amutex = {}
    /\ aout = [c \in AsyncCallers |-> "none"]
    /\ lastOp = NoOp

\* call is entered and waits at self.inner.lock().await
AsyncCall(c) ==
    /\ apc[c] = "idle"
    /\ apc' = [apc EXCEPT ![c] = "lock"]
    /\ aout' = [aout EXCEPT ![c] = "none"]
    /\ UNCHANGED <<amutex, lastOp>>
    /\ RestA

\* lock().await returns the guard; the caller goes on to .ready().await
AsyncLock(c) ==
    /\ apc[c] = "lock"
    /\ AsyncMutexFree(c)
    /\ amutex' = amutex \cup {c}
    /\ apc' = [apc EXCEPT ![c] = "ready"]
    /\ UNCHANGED <<aout, lastOp>>
    /\ RestA

\* .ready().await: poll_ready of the classic service returns Ready; on
\* Err(e) the `?` returns it from call.
AsyncReady(c, ok) ==
    /\ apc[c] = "ready"
    /\ lastOp' = [by |-> c, op |-> "poll_ready"]
    /\ IF ok
         THEN /\ apc' = [apc EXCEPT ![c] = "call"]
              /\ UNCHANGED <<amutex, aout>>
         ELSE /\ apc' = [apc EXCEPT ![c] = "done"]
              /\ aout' = [aout EXCEPT ![c] = "ReadyErr"]
              /\ amutex' = ReleaseAtEnd(c)
    /\ RestA

\* The mutex once .call(request) has returned the classic future: the
\* MutexGuard is a temporary of the whole expression, so it lives on through
\* the `.await` of that future.
ReleasedAfterCall(c) == amutex \ {c}
HeldAfterCall(c) == amutex

\* .call(request) on the classic service; the caller awaits its future
AsyncInnerCall(c) ==
    /\ apc[c] = "call"
    /\ lastOp' = [by |-> c, op |-> "call"]
    /\ apc' = [apc EXCEPT ![c] = "response"]
    /\ amutex' = HeldAfterCall(c)
    /\ UNCHANGED aout
    /\ RestA

\* The future of the classic call resolves; call returns its result.
AsyncResponse(c, ok) ==
    /\ apc[c] = "response"
    /\ aout' = [aout EXCEPT ![c] = IF ok THEN "Ok" ELSE "Err"]
    /\ amutex' = ReleaseAtEnd(c)
    /\ apc' = [apc EXCEPT ![c] = "done"]
    /\ UNCHANGED lastOp
    /\ RestA

\* The future of call is dropped at one of its three awaits.
AsyncDrop(c) ==
    /\ apc[c] \in {"lock", "ready", "response"}
    /\ aout' = [aout EXCEPT ![c] = DroppedAt(apc[c])]
    /\ amutex' = ReleaseOnDrop(c)
    /\ apc' = [apc EXCEPT ![c] = "done"]
    /\ UNCHANGED lastOp
    /\ RestA

\* The call is over; the caller may call again.
AsyncReturn(c) ==
    /\ apc[c] = "done"
    /\ apc' = [apc EXCEPT ![c] = "idle"]
    /\ UNCHANGED <<amutex, aout, lastOp>>
    /\ RestA

\* The calls that run to their end.
NextAsyncRun ==
    \/ \E c \in AsyncCallers : AsyncCall(c)
    \/ \E c \in AsyncCallers : AsyncLock(c)
    \/ \E c \in AsyncCallers, ok \in BOOLEAN : AsyncReady(c, ok)
    \/ \E c \in AsyncCallers : AsyncInnerCall(c)
    \/ \E c \in AsyncCallers, ok \in BOOLEAN : AsyncResponse(c, ok)
    \/ \E c \in AsyncCallers : AsyncReturn(c)

NextAsync ==
    \/ NextAsyncRun
    \/ \E c \in AsyncCallers : AsyncDrop(c)

\* Every running call is polled again; the readiness and the response of the
\* classic service complete; async_lock::Mutex hands the lock to a caller
\* that keeps waiting for it (it switches to fair hand-over for a starved
\* waiter).
FairAsync ==
    \A c \in AsyncCallers :
        /\ SF_vars(AsyncLock(c))
        /\ WF_vars(\E ok \in BOOLEAN : AsyncReady(c, ok))
        /\ WF_vars(AsyncInnerCall(c))
        /\ WF_vars(\E ok \in BOOLEAN : AsyncResponse(c, ok))

\* The calls that hold the mutex by their position in call.
AsyncHolders == {c \in AsyncCallers : apc[c] \in {"ready", "call", "response"}}

(***************************************************************************)
(* builder/mod.rs, with Stack and Identity of tower-async-layer             *)
(***************************************************************************)

\* Identity::new(): the layer that returns the service it is given.
Identity == [k |-> "Identity"]
\* Stack::new(inner, outer)
Stack(in, out) == [k |-> "Stack", inner |-> in, outer |-> out]

\* Layer::layer.  A service is the sequence of its middleware, outermost
\* first; the terminal service is the empty sequence.  A plain layer
\* [k |-> "Layer", id |-> n] puts middleware n around the service; Stack
\* applies its inner layer to the service and its outer layer to the result.
RECURSIVE LayerApply(_, _)
LayerApply(l, s) ==
    CASE l.k = "Identity" -> s
      [] l.k = "Layer" -> <<l.id>> \o s
      [] l.k = "Stack" -> LayerApply(l.outer, LayerApply(l.inner, s))

\* ServiceBuilder::layer: `Stack::new(layer, self.layer)`
builder_layer_swapped(b, T) == Stack(b, T)
builder_layer(b, T) == Stack(T, b)

\* ServiceBuilder::new()
BuilderNew ==
    /\ blayer = Identity
    /\ declared = <<>>
    /\ bsvc = [built |-> FALSE, mw |-> <<>>]
    /\ bdir = "idle"
    /\ bdepth = 0
    /\ btrace = <<>>

\* builder.layer(T)
BuilderLayer(n) ==
    /\ ~bsvc.built
    /\ Len(declared) < MaxStacked
    /\ blayer' = builder_layer(blayer, [k |-> "Layer", id |-> n])
    /\ declared' = Append(declared, n)
    /\ UNCHANGED <<bsvc, bdir, bdepth, btrace>>
    /\ RestS

\* builder.service(S): `self.layer.layer(service)`
BuilderService ==
    /\ ~bsvc.built
    /\ bsvc' = [built |-> TRUE, mw |-> LayerApply(blayer, <<>>)]
    /\ UNCHANGED <<blayer, declared, bdir, bdepth, btrace>>
    /\ RestS

\* The built service is called.
ChainCall ==
    /\ bsvc.built
    /\ bdir \in {"idle", "done"}
    /\ bdir' = "in"
    /\ bdepth' = 0
    /\ btrace' = <<>>
    /\ UNCHANGED <<blayer, declared, bsvc>>
    /\ RestS

\* The next middleware gets the request and calls its inner service.
ChainEnter ==
    /\ bdir = "in"
    /\ bdepth < Len(bsvc.mw)
    /\ btrace' = Append(btrace, [ev |-> "request", at |-> bsvc.mw[bdepth + 1]])
    /\ bdepth' = bdepth + 1
    /\ UNCHANGED <<blayer, declared, bsvc, bdir>>
    /\ RestS

\* The terminal service gets the request and answers Ok or Err.
ChainTerminal(r) ==
    /\ bdir = "in"
    /\ bdepth = Len(bsvc.mw)
    /\ btrace' = Append(btrace, [ev |-> r, at |-> 0])
    /\ bdir' = "out"
    /\ UNCHANGED <<blayer, declared, bsvc, bdepth>>
    /\ RestS

\* The inner call of the innermost middleware still waiting has resolved:
\* that middleware gets the result and returns.
ChainExit ==
    /\ bdir = "out"
    /\ bdepth > 0
    /\ btrace' = Append(btrace, [ev |-> "result", at |-> bsvc.mw[bdepth]])
    /\ bdepth' = bdepth - 1
    /\ UNCHANGED <<blayer, declared, bsvc, bdir>>
    /\ RestS

\* The outermost service returns to the caller.
ChainReturn ==
    /\ bdir = "out"
    /\ bdepth = 0
    /\ bdir' = "done"
    /\ UNCHANGED <<blayer, declared, bsvc, bdepth, btrace>>
    /\ RestS

NextBuilder ==
    \/ \E n \in 1..NumLayers : BuilderLayer(n)
    \/ BuilderService
    \/ ChainCall
    \/ ChainEnter
    \/ \E r \in {"Ok", "Err"} : ChainTerminal(r)
    \/ ChainExit
    \/ ChainReturn

(***************************************************************************)
(* Wrappers that hand one request to one inner call: the hyper adapters    *)
(* (tower-async-hyper: service.rs, lib.rs) and filter/mod.rs.              *)
(***************************************************************************)

\* What the wrapper returns for the inner result r: the adapters return
\* `service.call(req).await` as it is, the filters
\* `self.inner.call(request).err_into().await`.
ReturnedErased(k, r) == map_err_into(r)
Returned(k, r) ==
    IF k \in {"Filter", "AsyncFilter"} THEN map_err_into(r) ELSE r

\* The calls that may be in flight on one wrapper (call takes &self).
WrapCalls == 1..NumWrapCalls

\* into_hyper_service / TowerHyperService::new / Filter::new /
\* AsyncFilter::new
WrapAt(k) ==
    /\ wkind = k
    /\ wpc = [c \in WrapCalls |-> "idle"]
    /\ wreq = [c \in WrapCalls |-> "none"]
    /\ wchk = [c \in WrapCalls |-> NoResult]
    /\ wseen = [c \in WrapCalls |-> <<>>]
    /\ win = [c \in WrapCalls |-> NoOutcome]
    /\ wout = [c \in WrapCalls |-> NoOutcome]

\* call(req): the adapters box `async move { service.call(req).await }`, the
\* filters' call is an async fn; either way nothing runs before the first
\* poll.
WrapCall(c, req) ==
    /\ wpc[c] \in {"idle", "done", "dropped"}
    /\ wpc' = [wpc EXCEPT ![c] = "created"]
    /\ wreq' = [wreq EXCEPT ![c] = req]
    /\ wchk' = [wchk EXCEPT ![c] = NoResult]
    /\ wseen' = [wseen EXCEPT ![c] = <<>>]
    /\ win' = [win EXCEPT ![c] = NoOutcome]
    /\ wout' = [wout EXCEPT ![c] = NoOutcome]
    /\ UNCHANGED wkind
    /\ RestW

\* A poll that gets the call going.  An adapter calls the inner service
\* with req.  Filter matches on self.predicate.check(request), AsyncFilter
\* first awaits it; ans is what the predicate answers: on Ok(request) the
\* inner service is called with that request, on Err(e) the call returns
\* Err(e).
WrapPoll(c, ans) ==
    /\ \/ /\ wpc[c] = "created"
          /\ wkind \in {"HyperServiceWrapper", "TowerHyperService"}
          /\ wseen' = [wseen EXCEPT ![c] = Append(@, wreq[c])]
          /\ wpc' = [wpc EXCEPT ![c] = "inner"]
          /\ UNCHANGED <<wchk, wout>>
       \/ /\ wpc[c] = "created"
          /\ wkind = "AsyncFilter"
          /\ wpc' = [wpc EXCEPT ![c] = "checking"]
          /\ UNCHANGED <<wchk, wseen, wout>>
       \/ /\ \/ wpc[c] = "created" /\ wkind = "Filter"
             \/ wpc[c] = "checking"
          /\ wchk' = [wchk EXCEPT ![c] = ans]
          /\ IF ans.ok
               THEN /\ wseen' = [wseen EXCEPT ![c] = Append(@, ans.val)]
                    /\ wpc' = [wpc EXCEPT ![c] = "inner"]
                    /\ UNCHANGED wout
               ELSE /\ wout' = [wout EXCEPT ![c] = BoxError(ans.val)]
                    /\ wpc' = [wpc EXCEPT ![c] = "done"]
                    /\ UNCHANGED wseen
    /\ UNCHANGED <<wkind, wreq, win>>
    /\ RestW

\* The inner call resolves with r and the wrapper's future completes.
WrapInnerResolve(c, r) ==
    /\ wpc[c] = "inner"
    /\ win' = [win EXCEPT ![c] = r]
    /\ wout' = [wout EXCEPT ![c] = Returned(wkind, r)]
    /\ wpc' = [wpc EXCEPT ![c] = "done"]
    /\ UNCHANGED <<wkind, wreq, wchk, wseen>>
    /\ RestW

\* The caller drops the future before it has completed.
WrapDrop(c) ==
    /\ wpc[c] \in {"created", "checking", "inner"}
    /\ wpc' = [wpc EXCEPT ![c] = "dropped"]
    /\ UNCHANGED <<wkind, wreq, wchk, wseen, win, wout>>
    /\ RestW

NextWrap ==
    \/ \E c \in WrapCalls, req \in Requests : WrapCall(c, req)
    \/ \E c \in WrapCalls, ans \in {Ok(q) : q \in Requests} \cup {Err("rejected")} :
          WrapPoll(c, ans)
    \/ \E c \in WrapCalls, r \in InnerOutcomes : WrapInnerResolve(c, r)
    \/ \E c \in WrapCalls : WrapDrop(c)

(***************************************************************************)
(* tower-async-http: request_id.rs and follow_redirect/policy/limited.rs   *)
(***************************************************************************)

\* A request as SetRequestId sees it: its x-request-id header and its
\* RequestId extension, "none" when absent.
HttpRequest(h, e) == [header |-> h, ext |-> e]

\* Counter::make_request_id: `self.0.fetch_add(1, ..).to_string()` as a
\* header value; the id and the counter left behind.
make_request_id_fixed(n) == [id |-> ToString(0), next |-> n + 1]
make_request_id(n) == [id |-> ToString(n), next |-> n + 1]

\* Limited::redirect under the lock: the action and the counter left
\* behind.
redirect_unchecked(rem) == [action |-> "Follow", remaining |-> rem - 1]
redirect(rem) ==
    IF rem > 0 THEN [action |-> "Follow", remaining |-> rem - 1]
               ELSE [action |-> "Stop", remaining |-> rem]

\* The clones of one Limited: they share the Arc<Mutex<usize>>.
LimitedClones == 1..NumLimited

\* set_x_request_id(Counter::default()) and Limited::new(m)
HttpAt(m) ==
    /\ counter = 0
    /\ handled = <<>>
    /\ remaining = m
    /\ limit = m
    /\ answers = <<>>

\* SetRequestId::call up to `self.inner.call(req)`: a request that has the
\* header keeps it (and gets the extension if it had none); one without
\* gets the id the maker returns as header and as extension.
SetRequestIdCall(req) ==
    /\ Len(handled) < MaxRequests
    /\ IF req.header # "none"
         THEN /\ handled' = Append(handled,
                     [in |-> req,
                      out |-> [req EXCEPT !.ext = IF @ = "none" THEN req.header ELSE @]])
              /\ UNCHANGED counter
         ELSE LET made == make_request_id(counter)
              IN /\ handled' = Append(handled,
                        [in |-> req, out |-> HttpRequest(made.id, made.id)])
                 /\ counter' = made.next
    /\ UNCHANGED <<remaining, limit, answers>>
    /\ RestH

\* Limited::redirect on the clone c; the MutexGuard is held from the test
\* to the decrement.
LimitedRedirect(c) ==
    /\ Len(answers) < MaxRedirects + 2
    /\ LET ans == redirect(remaining)
       IN /\ remaining' = ans.remaining
          /\ answers' = Append(answers, [by |-> c, action |-> ans.action])
    /\ UNCHANGED <<counter, handled, limit>>
    /\ RestH

NextHttp ==
    \/ \E h \in {"none", "foo"}, e \in {"none", "bar"} : SetRequestIdCall(HttpRequest(h, e))
    \/ \E c \in LimitedClones : LimitedRedirect(c)

(***************************************************************************)
(* Contention on a multi-threaded runtime, under one particular scheduler: *)
(* caller 1's check() gets to take the lock only at moments when every     *)
(* slot is taken.  Everything else runs as in NextLimit; no call is        *)
(* cancelled and the policy has no direct user.                            *)
(***************************************************************************)

NextLimitStarve ==
    \/ \E t \in Tasks : (t = 1 => current = max) /\ check_lock(t)
    \/ \E t \in Tasks : check_test(t)
    \/ \E t \in Tasks : check_incr(t)
    \/ \E t \in Tasks : drop_lock(t)
    \/ \E t \in Tasks : drop_decr(t)
    \/ \E t \in Callers : LimitCall(t)
    \/ \E t \in Callers : InnerResolve(t, "Ok")
    \/ \E t \in Callers : LimitReturn(t)

(***************************************************************************)
(* Timeout around Limit: the call of Timeout 1 is polled by one worker,    *)
(* and the inner branch of its select! is the future of Limit 1's call.    *)
(***************************************************************************)

NextTimeoutLimit ==
    \* Timeout::call is entered; select! builds the future of Limit::call
    \/ pc[1] = "idle" /\ TimeoutCall(1)
    \/ DeadlinePasses(1)
    \* select! polls its inner branch: the worker runs Limit::call up to its
    \* next suspension point
    \/ tpc[1] = "select" /\ innerOut[1] = NoOutcome /\ Schedule(1)
    \/ PollStep(1)
    \/ Suspend(1)
    \* Limit::call has returned: the inner branch is ready with its result
    \/ /\ pc[1] = "done"
       /\ running = {}
       /\ InnerCompletes(1, IF outcome[1] = "Ok" THEN Response("world")
                                               ELSE NativeError(outcome[1]))
    \* between two polls of the inner branch select! polls the sleep, and
    \* completes with whichever branch it finds ready
    \/ \E first \in {"inner", "sleep"} : running = {} /\ SelectPoll(1, first)
    \* select! completed with the sleep: the future of Limit::call is dropped
    \/ innerFut[1] = "dropped" /\ running = {} /\ Cancel(1)
    \/ running = {} /\ drop_lock(1)
    \/ running = {} /\ drop_decr(1)
    \/ TimeoutReturn(1)
    \/ tpc[1] \in {"idle", "done"} /\ LimitReturn(1)

(***************************************************************************)
(* The specifications: one per component, the other components at rest.    *)
(***************************************************************************)

LimitAtRest == LimitAt(1, FALSE)
BridgeAtRest == BridgeAt("classic_wrapper")
RetryAtRest == RetryAt([kind |-> "RetryErrors", n |-> 0])

InitSpecLimit == InitLimit /\ BridgeAtRest /\ RetryAtRest /\ TimeoutAt /\ AsyncAt /\ BuilderNew /\ WrapAt("Filter") /\ HttpAt(0)
InitSpecBridge == InitBridge /\ LimitAtRest /\ RetryAtRest /\ TimeoutAt /\ AsyncAt /\ BuilderNew /\ WrapAt("Filter") /\ HttpAt(0)
InitSpecRetry == InitRetry /\ LimitAtRest /\ BridgeAtRest /\ TimeoutAt /\ AsyncAt /\ BuilderNew /\ WrapAt("Filter") /\ HttpAt(0)
InitSpecTimeout == TimeoutAt /\ LimitAtRest /\ BridgeAtRest /\ RetryAtRest /\ AsyncAt /\ BuilderNew /\ WrapAt("Filter") /\ HttpAt(0)
InitSpecAsync == AsyncAt /\ LimitAtRest /\ BridgeAtRest /\ RetryAtRest /\ TimeoutAt /\ BuilderNew /\ WrapAt("Filter") /\ HttpAt(0)

SpecLimit == InitSpecLimit /\ [][NextLimit]_vars
SpecLimitCoop == InitSpecLimit /\ [][NextLimitCoop]_vars /\ FairLimitCoop
SpecBridge == InitSpecBridge /\ [][NextBridge]_vars
SpecRetry == InitSpecRetry /\ [][NextRetry]_vars
SpecTimeout == InitSpecTimeout /\ [][NextTimeout]_vars
SpecHttpTimeout == InitSpecTimeout /\ [][NextHttpTimeout]_vars
InitSpecBuilder == BuilderNew /\ LimitAtRest /\ BridgeAtRest /\ RetryAtRest /\ TimeoutAt /\ AsyncAt /\ WrapAt("Filter") /\ HttpAt(0)
InitSpecHttp ==
    /\ \E m \in 0..MaxRedirects : HttpAt(m)
    /\ LimitAtRest /\ BridgeAtRest /\ RetryAtRest /\ TimeoutAt /\ AsyncAt /\ BuilderNew
    /\ WrapAt("Filter")
InitSpecWrap ==
    /\ \E k \in {"HyperServiceWrapper", "TowerHyperService", "Filter", "AsyncFilter"} : WrapAt(k)
    /\ LimitAtRest /\ BridgeAtRest /\ RetryAtRest /\ TimeoutAt /\ AsyncAt /\ BuilderNew
    /\ HttpAt(0)

SpecAsync == InitSpecAsync /\ [][NextAsync]_vars
SpecBuilder == InitSpecBuilder /\ [][NextBuilder]_vars
SpecWrap == InitSpecWrap /\ [][NextWrap]_vars
SpecHttp == InitSpecHttp /\ [][NextHttp]_vars
\* Every caller keeps calling, every started step of a call is eventually
\* taken, and a caller that can take the lock again and again eventually
\* takes it.
SpecLimitStarve ==
    /\ InitSpecLimit
    /\ [][NextLimitStarve]_vars
    /\ \A t \in Callers :
          /\ WF_vars(LimitCall(t))
          /\ SF_vars((t = 1 => current = max) /\ check_lock(t))
          /\ WF_vars(check_test(t))
          /\ WF_vars(check_incr(t))
          /\ WF_vars(InnerResolve(t, "Ok"))
          /\ SF_vars(drop_lock(t))
          /\ WF_vars(drop_decr(t))
          /\ WF_vars(LimitReturn(t))
\* The worker keeps polling the task, a polled future goes on running, and
\* time goes by.
SpecTimeoutLimit ==
    /\ InitSpecLimit
    /\ [][NextTimeoutLimit]_vars
    /\ WF_vars(DeadlinePasses(1))
    /\ SF_vars(Schedule(1)) /\ SF_vars(PollStep(1)) /\ WF_vars(Suspend(1))
    /\ SF_vars(\E first \in {"inner", "sleep"} : running = {} /\ SelectPoll(1, first))
SpecAsyncFair == InitSpecAsync /\ [][NextAsyncRun]_vars /\ FairAsync

(***************************************************************************)
(* Properties of the limit middleware (SpecLimit).                         *)
(***************************************************************************)

\* C1: whatever the interleaving of check() calls and guard drops on one
\* shared ConcurrentPolicy, the live guards never exceed max, current stays
\* within 0..max, current equals the number of live guards, and no two tasks
\* are inside the locked section of check/drop at once (so two checks made
\* at current = max - 1 cannot both be admitted).
C1_GuardBalance ==
    /\ LiveGuards <= max
    /\ 0 <= current
    /\ current <= max
    /\ current = LiveGuards
    /\ Cardinality({t \in Tasks : pc[t] \in {"locked", "incr", "decr"}}) <= 1

\* Two checks race for the last slot: one task has passed the test at
\* current = max - 1 and still holds the lock, another waits for the lock.
C1_Witness ==
    /\ max = 2
    /\ current = max - 1
    /\ \E t1, t2 \in Tasks : t1 # t2 /\ pc[t1] = "incr" /\ pc[t2] = "check"

\* C2: the guard issued to an admitted Limit::call is released exactly once,
\* after the inner call resolved (Ok or Err): it is live and undecremented
\* while the inner call is in flight, the release step lowers current by
\* exactly one, and once the call has returned the guard is gone and has
\* decremented once.
C2_ReleasedExactlyOnce ==
    /\ [](\A t \in Callers :
            /\ pc[t] = "inner" => held[t] = 1 /\ drops[t] = 0
            /\ (pc[t] \in {"done", "idle"} /\ outcome[t] \in {"Ok", "Err"})
                 => held[t] = 0 /\ drops[t] = 1)
    /\ [][\A t \in Callers :
            (pc[t] = "decr" /\ pc'[t] = "done")
              => current' = current - 1 /\ drops'[t] = 1 /\ held'[t] = 0]_vars

\* Two admitted calls have returned, one with Ok and one with Err, each
\* having released its guard.
C2_Witness ==
    \E t1, t2 \in Callers :
        /\ pc[t1] = "done" /\ outcome[t1] = "Ok" /\ drops[t1] = 1
        /\ pc[t2] = "done" /\ outcome[t2] = "Err" /\ drops[t2] = 1

\* C3: when the future of an admitted Limit::call is dropped while the inner
\* call is pending, its guard is released once: after the drop the cancelled
\* call owns no guard, its guard decremented exactly once, and current counts
\* only the guards of the other tasks.
C3_CancelReleases ==
    \A t \in Callers :
        (outcome[t] = "Cancelled" /\ pc[t] \in {"done", "idle"})
          => /\ held[t] = 0
             /\ drops[t] = 1
             /\ current = SumOver(held, Tasks \ {t})

\* With one slot: a call was cancelled while in flight, and afterwards
\* another caller's check was admitted.
C3_Witness ==
    /\ max = 1
    /\ \E t1, t2 \in Callers :
        /\ t1 # t2
        /\ outcome[t1] = "Cancelled" /\ pc[t1] = "done"
        /\ pc[t2] = "inner"

\* C4: over all Limit services of one layer, the inner calls that have
\* started and not resolved never exceed max, and each of them owns its
\* guard for as long as it is in flight.
C4_InFlightAtMostMax ==
    /\ Cardinality(InFlight) <= max
    /\ \A t \in InFlight : held[t] = 1

\* With one slot: one call is in flight while another one was refused.
C4_Witness ==
    /\ max = 1
    /\ \E t1, t2 \in Callers :
        /\ pc[t1] = "inner"
        /\ pc[t2] = "done" /\ outcome[t2] = "LimitReached"

(***************************************************************************)
(* Properties of the consuming bridge (SpecBridge).                        *)
(***************************************************************************)

\* C5: every use of a ClassicServiceWrapper made after its first call
\* (poll_ready or call, with any request) yields ServiceConsumed, and the
\* inner service is invoked at most once.
C5_LaterUseServiceConsumed ==
    \A w \in exists :
        /\ lateUse[w] \in {"none", "ServiceConsumed"}
        /\ innerCalls[w] <= 1

\* C6: a wrapper is Available ("Some") or Consumed ("None"); once call() has
\* been made it is Consumed, whatever became of the returned future; and a
\* Consumed wrapper stays Consumed under every operation.
C6_ConsumedIsTerminal ==
    /\ [](\A w \in exists :
            /\ inner[w] \in {"Some", "None"}
            /\ called[w] => inner[w] = "None")
    /\ [][\A w \in exists : inner[w] = "None" => inner'[w] = "None"]_vars

\* The future of the first call was dropped before it resolved, and the
\* wrapper, still Consumed, has been used again since.
C6_Witness ==
    \E w \in exists :
        /\ called[w] /\ inner[w] = "None"
        /\ fut[w].st = "dropped"
        /\ lateUse[w] # "none"

(***************************************************************************)
(* Properties of the retry middleware (SpecRetry).                         *)
(***************************************************************************)

Last(q) == q[Len(q)]

\* C7: when clone_request returned None, one inner call is made, its result
\* is returned, and the policy's retry is not invoked.
C7_NoCloneNoRetry ==
    (rpc # "idle" /\ cloned = <<>>)
      => /\ retries = 0
         /\ Len(seen) <= 1
         /\ rpc # "panicked"
         /\ rpc = "done" => result = Last(results)

\* C8: for a cloneable request the policy is consulted exactly once after
\* each inner call, and a call that returns after K "retry" answers has made
\* exactly K + 1 inner calls and returns the result the policy left at the
\* last consultation; with the Limit(K) policy and an inner service that
\* keeps failing that is K + 1 inner calls.
C8_AttemptsAreRetriesPlusOne ==
    cloned # <<>> =>
      /\ rpc = "loop" => retries = Len(seen) /\ trues = retries
      /\ rpc \in {"inner", "consult"} => retries = Len(seen) - 1 /\ trues = retries
      /\ rpc = "done" =>
           /\ Len(seen) = trues + 1
           /\ retries = Len(seen)
           /\ Len(results) = Len(seen)
           /\ result = PolicyRetry(policy, cloned, Last(results)).result
           /\ (policy0.kind = "Limit" /\ \A i \in 1..Len(results) : ~results[i].ok)
                => Len(seen) = policy0.n + 1

\* Limit(2) and three failures: three inner calls, three consultations.
C8_Witness ==
    /\ rpc = "done"
    /\ policy0 = [kind |-> "Limit", n |-> 2]
    /\ Len(seen) = 3
    /\ retries = 3
    /\ ~result.ok

\* C9: with MutatingPolicy { remaining: 2 } and the request "hello", the
\* inner service receives "hello", "retrying", "retrying".
C9_MutatedRequestIsSent ==
    (rpc = "done" /\ policy0 = [kind |-> "MutatingPolicy", n |-> 2]
       /\ request = "hello")
      => seen = <<"hello", "retrying", "retrying">>

\* C10: a call that returns hands back the result as the policy left it: the
\* overwritten value when the policy overwrote it (MutatingPolicy gives up
\* with Err("out of retries")), the inner service's own last result when the
\* policy left it alone.
C10_ReturnsResultLeftByPolicy ==
    rpc = "done" =>
      IF policy.kind = "MutatingPolicy"
        THEN result = Err("out of retries")
        ELSE result = Last(results)

\* MutatingPolicy gave up on an attempt the inner service answered with
\* Ok("world"): the caller gets Err("out of retries").
C10_Witness ==
    /\ rpc = "done"
    /\ policy0 = [kind |-> "MutatingPolicy", n |-> 2]
    /\ Last(results) = Ok("world")
    /\ result = Err("out of retries")

(***************************************************************************)
(* Properties of the limit middleware: refusals (SpecLimit, SpecLimitCoop). *)
(***************************************************************************)

\* C11: whenever a call of Limit::call is about to check again after a
\* Retry, the backoff future that Retry carried has completed.
C11_BackoffAwaitedBeforeRecheck ==
    \A t \in Callers :
        (pc[t] \in {"check", "locked"} /\ backoffFut[t] # "none")
          => backoffFut[t] = "completed"

\* C12: with with_backoff(max = 1, ..) and an echoing inner service, under a
\* fair executor every concurrently issued call eventually returns Ok.
C12_BothEventuallyOk ==
    (max = 1 /\ backoff)
      => <>(\A t \in Callers : pc[t] = "done" /\ outcome[t] = "Ok")

\* C13: with ConcurrentPolicy::new(max), a call whose check is made while max
\* guards are live ends at once with LimitReached, leaves the counter alone
\* and never reaches the inner service; a check made while fewer are live is
\* admitted.  In particular, with max = 1 a check made while another call is
\* in flight is refused.
C13_AbortWhenFull ==
    /\ [][\A t \in Callers :
            (~backoff /\ pc[t] = "locked" /\ pc'[t] # "locked")
              => /\ IF LiveGuards >= max
                      THEN /\ pc'[t] = "done"
                           /\ outcome'[t] = "LimitReached"
                           /\ current' = current
                           /\ held'[t] = 0
                      ELSE pc'[t] = "incr"
                 /\ (max = 1 /\ \E u \in Callers \ {t} : pc[u] = "inner")
                      => outcome'[t] = "LimitReached"]_vars
    /\ [](\A t \in Callers :
            outcome[t] = "LimitReached"
              => pc[t] \in {"done", "idle"} /\ held[t] = 0 /\ drops[t] = 0)
    /\ [][\A t \in Callers :
            (pc'[t] = "inner" /\ pc[t] # "inner") => outcome[t] = "none"]_vars

\* With one slot and no backoff: of two overlapping calls, the admitted one
\* has got its Ok from the inner service and is releasing its guard, the
\* other one was refused.
C13_Witness ==
    /\ max = 1
    /\ ~backoff
    /\ held[Direct] = 0
    /\ \E t1, t2 \in Callers :
        /\ pc[t1] = "drop" /\ outcome[t1] = "Ok"
        /\ pc[t2] = "done" /\ outcome[t2] = "LimitReached"

\* C14: a check is admitted exactly when current < max at the test; the
\* test itself leaves current alone, an admitted check adds exactly one and
\* one guard, a dropped guard takes exactly one off; so with current = max
\* every check is refused until a guard is dropped, and one drop admits one.
C14_CheckCountsExactly ==
    /\ [][\A t \in Tasks :
            /\ (pc[t] = "locked" /\ pc'[t] # "locked")
                 => /\ current' = current
                    /\ held' = held
                    /\ pc'[t] = "incr" <=> current < max
            /\ (pc[t] = "incr" /\ pc'[t] # "incr")
                 => current' = current + 1 /\ held'[t] = held[t] + 1
            /\ (pc[t] = "decr" /\ pc'[t] # "decr")
                 => current' = current - 1 /\ held'[t] = held[t] - 1]_vars
    /\ [](current \in 0..max)

\* concurrent_policy with max = 2: the direct user owns two guards and its
\* third check is under way at current = 2.
C14_Witness ==
    /\ max = 2
    /\ held[Direct] = 2
    /\ current = 2
    /\ pc[Direct] = "locked"

(***************************************************************************)
(* Properties of the timeout middleware (SpecTimeout).                     *)
(***************************************************************************)

\* C15: when Timeout::call completed at a poll that found the inner call
\* resolved and the deadline not yet passed, it returned the inner result:
\* an Ok response as it is, an inner error with the same payload (boxed),
\* never Elapsed.
C15_InnerFirstReturnsInner ==
    \A s \in Timeouts :
        (tpc[s] \in {"done", "idle"} /\ innerOut[s] # NoOutcome /\ ~deadline[s])
          => /\ tresult[s] # Elapsed
             /\ tresult[s].kind = innerOut[s].kind
             /\ tresult[s].val = innerOut[s].val
             /\ innerOut[s].kind = "Ok" => tresult[s] = innerOut[s]
             /\ innerFut[s] = "ready"

\* Two calls were won by the inner service before the deadline, one with a
\* response and one with the service's own error.
C15_Witness ==
    \E s1, s2 \in Timeouts :
        /\ tpc[s1] = "done" /\ ~deadline[s1]
        /\ innerOut[s1] = Response("world") /\ tresult[s1] = Response("world")
        /\ tpc[s2] = "done" /\ ~deadline[s2]
        /\ innerOut[s2] = NativeError("reject") /\ tresult[s2] = BoxError("reject")

\* C16: when Timeout::call completed at a poll that found the deadline
\* passed and the inner call unresolved, it returned Elapsed and the inner
\* call's future was destroyed; from then on, until the service is called
\* again, the inner call produces nothing and the caller's result stays
\* Elapsed.
C16_DeadlineFirstReturnsElapsed ==
    /\ [](\A s \in Timeouts :
            (tpc[s] \in {"done", "idle"} /\ deadline[s] /\ innerOut[s] = NoOutcome)
              => tresult[s] = Elapsed /\ innerFut[s] = "dropped")
    /\ [][\A s \in Timeouts :
            (tresult[s] = Elapsed /\ tpc'[s] # "select")
              => /\ tresult'[s] = Elapsed
                 /\ innerFut'[s] = "dropped"
                 /\ innerOut'[s] = innerOut[s]]_vars

\* A call timed out before its inner call produced anything, and has
\* returned to its caller.
C16_Witness ==
    \E s \in Timeouts :
        /\ tpc[s] = "idle"
        /\ tresult[s] = Elapsed
        /\ innerOut[s] = NoOutcome
        /\ innerFut[s] = "dropped"

(***************************************************************************)
(* Properties of the re-entrant bridge (SpecAsync, SpecAsyncFair).         *)
(***************************************************************************)

\* C17: of the calls going through one AsyncServiceWrapper at most one is
\* between its readiness step and the end of its classic call, and it holds
\* the mutex; every operation on the classic service is made by the holder,
\* and when a call makes its classic call the last operation on the service
\* was its own readiness step.
C17_ReadyThenCallUnderMutex ==
    /\ [](Cardinality(AsyncHolders) <= 1 /\ amutex = AsyncHolders)
    /\ [][\A c \in AsyncCallers :
            /\ (apc[c] = "call" /\ apc'[c] = "response")
                 => lastOp = [by |-> c, op |-> "poll_ready"] /\ amutex = {c}
            /\ (lastOp' # lastOp /\ lastOp'.by = c) => amutex = {c}]_vars

\* One call has had its readiness and is about to make its classic call
\* while another call waits for the mutex.
C17_Witness ==
    \E c1, c2 \in AsyncCallers :
        /\ c1 # c2
        /\ apc[c1] = "call" /\ lastOp = [by |-> c1, op |-> "poll_ready"]
        /\ apc[c2] = "lock"

\* C18: when calls are not cancelled and the classic service's readiness
\* and calls complete, every call that waits for the mutex gets it, and
\* every call that has it ends (after its readiness step, and after its
\* classic call if it returns an inner result) with the mutex released;
\* no call ever ends with ServiceConsumed, however many calls were made.
C18_EveryCallCompletes ==
    /\ \A c \in AsyncCallers : (apc[c] = "lock") ~> (c \in amutex)
    /\ \A c \in AsyncCallers :
          (c \in amutex)
            ~> (apc[c] = "done" /\ c \notin amutex /\ aout[c] \in {"Ok", "Err", "ReadyErr"})
    /\ [](\A c \in AsyncCallers : aout[c] # "ServiceConsumed")
    /\ [][\A c \in AsyncCallers :
            (aout[c] = "none" /\ aout'[c] \in {"Ok", "Err"})
              => lastOp = [by |-> c, op |-> "call"]]_vars

\* One call has completed with Ok, and after it another caller got the
\* mutex and made its classic call.
C18_Witness ==
    \E c1, c2 \in AsyncCallers :
        /\ c1 # c2
        /\ apc[c1] = "done" /\ aout[c1] = "Ok"
        /\ apc[c2] = "response" /\ lastOp = [by |-> c2, op |-> "call"]

\* C19: a call that is over or still waiting never holds the mutex; the
\* step that drops a call's future during readiness or during the classic
\* call, or that ends the call on a readiness error, leaves the mutex free.
C19_DropAndReadyErrRelease ==
    /\ [](\A c \in AsyncCallers : apc[c] \in {"idle", "lock", "done"} => c \notin amutex)
    /\ [][\A c \in AsyncCallers :
            (aout[c] = "none"
               /\ aout'[c] \in {"CancelledInReady", "CancelledInCall", "ReadyErr"})
              => c \in amutex /\ amutex' = {} /\ apc'[c] = "done"]_vars

\* A call was dropped during its readiness step, and afterwards another
\* caller got the mutex.
C19_Witness ==
    \E c1, c2 \in AsyncCallers :
        /\ c1 # c2
        /\ apc[c1] = "done" /\ aout[c1] = "CancelledInReady"
        /\ c2 \in amutex

(***************************************************************************)
(* Properties of the consuming bridge, continued (SpecBridge).             *)
(***************************************************************************)

\* C20: the call that reached the inner service and resolved returned Ok
\* or ServiceError.
C20_InnerOutcomeUnderTaxonomy ==
    \A w \in exists :
        (innerCalls[w] > 0 /\ fut[w].st \notin {"running", "dropped"})
          => fut[w].st \in {"Ok", "ServiceError"}

\* C21: for every wrapper instance, whatever poll_ready and call operations
\* were made on it: the wrapped service's call was invoked at most once, only
\* after the wrapper's call, and while a returned future is alive (polled or
\* not) the wrapper no longer holds the service, so no second future can
\* get it.
C21_AtMostOneHolder ==
    \A w \in exists :
        /\ innerCalls[w] <= 1
        /\ innerCalls[w] = 1 => called[w]
        /\ fut[w].st # "none" => inner[w] = "None"
        /\ fut[w].st \in {"running", "Ok", "ServiceError", "Err"} => innerCalls[w] = 1
        /\ fut[w].st = "created" => innerCalls[w] = 0

\* The future of the first call was dropped without being polled, and a
\* later call was made on the same instance.
C21_Witness ==
    \E w \in exists :
        /\ fut[w].st = "dropped"
        /\ innerCalls[w] = 0
        /\ lateUse[w] = "panic"

(***************************************************************************)
(* Properties of the builder (SpecBuilder).                                *)
(***************************************************************************)

\* C22: the service built from layers declared in the order d1, d2, .. is
\* d1 around d2 around .. around the terminal service, and a completed call
\* was seen by d1, d2, .. in that order, then by the terminal service, and
\* its result by .., d2, d1 in the reverse order, nothing else in between.
C22_FirstDeclaredOutermost ==
    /\ bsvc.built => bsvc.mw = declared
    /\ bdir = "done"
         => LET n == Len(declared)
            IN /\ Len(btrace) = 2 * n + 1
               /\ \A i \in 1..n :
                    /\ btrace[i] = [ev |-> "request", at |-> declared[i]]
                    /\ btrace[2 * n + 2 - i] = [ev |-> "result", at |-> declared[i]]
               /\ btrace[n + 1].at = 0

\* A call went through a service built from two different layers (and maybe
\* more), and has returned.
C22_Witness ==
    /\ bdir = "done"
    /\ Len(declared) >= 2
    /\ declared[1] # declared[2]

(***************************************************************************)
(* Properties of the limit middleware: errors and fairness.                *)
(***************************************************************************)

\* C23 as claimed: a finished Limit::call shows its caller an error of type
\* LimitReached exactly when the policy aborted it, i.e. when it ended
\* without ever owning a guard.
C23_LimitReachedIffAborted ==
    \A t \in Callers :
        (pc[t] \in {"done", "idle"} /\ outcome[t] # "none")
          => (IntoBoxError(outcome[t]) = "LimitReached" <=> drops[t] = 0)

\* C23 as it holds: a call the policy aborted ends without ever owning a
\* guard and shows its caller LimitReached; an admitted call ends with the
\* answer of the inner service, whose type the boxing keeps; so an error of
\* type LimitReached comes from the policy unless the inner service itself
\* answered with an error of that type.
C23_LimitReachedUnlessInner ==
    \A t \in Callers :
        (pc[t] \in {"done", "idle"} /\ outcome[t] # "none")
          => /\ drops[t] = 0 <=> outcome[t] = "LimitReached"
             /\ drops[t] = 0 => IntoBoxError(outcome[t]) = "LimitReached"
             /\ drops[t] = 1 => outcome[t] \in InnerAnswers \cup {"Cancelled"}
             /\ (IntoBoxError(outcome[t]) = "LimitReached" /\ outcome[t] # "InnerLimitReached")
                  => drops[t] = 0

\* One call was aborted by the policy while another, admitted, call ended
\* with an error of the inner service.
C23_Witness ==
    \E t1, t2 \in Callers :
        /\ pc[t1] = "done" /\ outcome[t1] = "LimitReached" /\ drops[t1] = 0
        /\ pc[t2] = "done" /\ outcome[t2] = "Err" /\ drops[t2] = 1

\* C24: with a policy that answers Retry to every check (with_backoff and
\* max = 0), every call of a Timeout around the Limit eventually returns
\* Elapsed.
C24_TimeoutBoundsRetryLoop ==
    (max = 0 /\ backoff)
      => ((tpc[1] = "select") ~> (tpc[1] = "done" /\ tresult[1] = Elapsed))

\* C25: every request session starts from the policy the Retry was built
\* with: the policy a Retry::call starts from (policy0) is the same for
\* every call, whatever the sessions before it did to their policy.
C25_SessionStartsFromConfigured == [][policy0' = policy0]_vars

\* C26: with a policy that retries exactly on Err and leaves the request
\* alone (RetryErrors), every attempt of a session receives the request the
\* caller passed, and the call returns the first Ok the inner service
\* answers: every earlier answer was an Err.
C26_FirstOkWithOriginalRequest ==
    (policy.kind = "RetryErrors" /\ rpc # "idle")
      => /\ \A i \in 1..Len(seen) : seen[i] = request
         /\ rpc = "done"
              => /\ result.ok
                 /\ Len(results) = Len(seen)
                 /\ result = results[Len(results)]
                 /\ \A i \in 1..(Len(results) - 1) : ~results[i].ok

C26_Witness ==
    /\ policy.kind = "RetryErrors"
    /\ rpc = "done"
    /\ request = "hello"
    /\ seen = <<"hello", "hello">>
    /\ ~results[1].ok
    /\ result = Ok("world")

\* C27: the retry loop keeps no queue: with a backoff policy of one slot
\* there is an execution, fair to every caller, in which caller 1 re-checks
\* forever and is never admitted while the other callers acquire the slot
\* again and again.  SpecLimitStarve is the scheduler of such executions:
\* under it caller 1 never gets past its check, goes on re-checking, and
\* the others go on being admitted.
C27_WaiterStarvesWhileOthersAcquire ==
    (backoff /\ max = 1)
      => /\ [](pc[1] \in {"idle", "check", "locked"} /\ held[1] = 0)
         /\ []<>(pc[1] = "locked" /\ current = max)
         /\ []<>(\E t \in Callers \ {1} : pc[t] = "incr")

\* Caller 1 was refused and waits, and another caller is being admitted.
C27_Witness ==
    /\ backoff /\ max = 1
    /\ pc[1] = "check" /\ backoffFut[1] = "dropped"
    /\ \E t \in Callers \ {1} : pc[t] = "incr" /\ drops[t] = 0 /\ outcome[t] = "none"

(***************************************************************************)
(* Properties of the HTTP timeout (SpecHttpTimeout).                       *)
(***************************************************************************)

\* C29: what the HTTP Timeout returns is either the inner result, exactly
\* as the inner service produced it, or Ok with the 408 response; an error
\* it returns is the inner service's own error.  A call completed with the
\* deadline passed and the inner call unresolved returns the 408 response;
\* one completed with the inner call resolved and the deadline not passed
\* returns the inner result.
C29_TimeoutIsA408Response ==
    \A s \in Timeouts :
        (tpc[s] \in {"done", "idle"} /\ tresult[s] # NoOutcome)
          => /\ tresult[s] \in {innerOut[s], Response("408 Request Timeout")}
             /\ tresult[s].kind = "Err" => tresult[s] = innerOut[s]
             /\ (deadline[s] /\ innerOut[s] = NoOutcome)
                  => tresult[s] = Response("408 Request Timeout")
             /\ (innerOut[s] # NoOutcome /\ ~deadline[s]) => tresult[s] = innerOut[s]

\* One call timed out with nothing from the inner service and got the 408
\* response; another was won by the inner service with its own error.
C29_Witness ==
    \E s1, s2 \in Timeouts :
        /\ tpc[s1] = "done" /\ deadline[s1] /\ innerOut[s1] = NoOutcome
        /\ tresult[s1] = Response("408 Request Timeout")
        /\ tpc[s2] = "done" /\ ~deadline[s2]
        /\ innerOut[s2] = NativeError("reject") /\ tresult[s2] = NativeError("reject")

(***************************************************************************)
(* Properties of the hyper adapters and of the filters (SpecWrap).         *)
(***************************************************************************)

\* C28: on a hyper adapter every call reaches the wrapped service at most
\* once, not before its future is polled, and with the request it was
\* given; a future that completed reached it exactly once and returned the
\* inner result, Ok or Err, exactly as the inner service produced it.
C28_OneInnerCallSameResult ==
    wkind \in {"HyperServiceWrapper", "TowerHyperService"}
      => \A c \in WrapCalls :
            /\ Len(wseen[c]) <= 1
            /\ wpc[c] \in {"idle", "created"} => wseen[c] = <<>>
            /\ wpc[c] \in {"inner", "done"} => wseen[c] = <<wreq[c]>>
            /\ wpc[c] = "done" => win[c] # NoOutcome /\ wout[c] = win[c]

\* Two calls on one adapter completed, one with the inner service's error
\* and one with its response.
C28_Witness ==
    /\ wkind \in {"HyperServiceWrapper", "TowerHyperService"}
    /\ \E c1, c2 \in WrapCalls :
          /\ wpc[c1] = "done" /\ wreq[c1] = "hello" /\ wseen[c1] = <<"hello">>
          /\ win[c1] = NativeError("reject") /\ wout[c1] = NativeError("reject")
          /\ wpc[c2] = "done" /\ wseen[c2] = <<wreq[c2]>>
          /\ win[c2] = Response("world") /\ wout[c2] = Response("world")

\* C30: in Filter and AsyncFilter the inner service is called only after
\* the predicate answered Ok(r), then exactly once and with r; when the
\* predicate answered Err(e) the call returned Err(e) without an inner
\* call; a call that completed after an inner call returned the inner
\* result, an Ok as it is and an error with the same payload, boxed.
C30_PredicateDecidesDispatch ==
    wkind \in {"Filter", "AsyncFilter"}
      => \A c \in WrapCalls :
            /\ wchk[c] = NoResult => wseen[c] = <<>> /\ wpc[c] # "done"
            /\ (wchk[c] # NoResult /\ ~wchk[c].ok)
                 => /\ wseen[c] = <<>>
                    /\ wpc[c] = "done"
                    /\ wout[c] = BoxError(wchk[c].val)
            /\ wchk[c].ok => wseen[c] = <<wchk[c].val>>
            /\ (wchk[c].ok /\ wpc[c] = "done")
                 => /\ win[c] # NoOutcome
                    /\ wout[c].kind = win[c].kind /\ wout[c].val = win[c].val
                    /\ win[c].kind = "Ok" => wout[c] = win[c]
                    /\ win[c].kind = "Err" => wout[c] = BoxError(win[c].val)

\* On an AsyncFilter one call was rejected by the predicate without an
\* inner call; in another the predicate replaced the request, the inner
\* service got the new request and its error was returned boxed.
C30_Witness ==
    /\ wkind = "AsyncFilter"
    /\ \E c1, c2 \in WrapCalls :
          /\ wpc[c1] = "done" /\ wchk[c1] = Err("rejected") /\ wseen[c1] = <<>>
          /\ wout[c1] = BoxError("rejected")
          /\ wpc[c2] = "done" /\ wreq[c2] = "hello" /\ wchk[c2] = Ok("retrying")
          /\ wseen[c2] = <<"retrying">>
          /\ win[c2] = NativeError("reject") /\ wout[c2] = BoxError("reject")

(***************************************************************************)
(* Properties of SetRequestId and of Limited (SpecHttp).                   *)
(***************************************************************************)

\* C31: a request that arrives with the header leaves SetRequestId with
\* the same header and consumes no id; the k-th request that arrives
\* without it leaves with the id k - 1, however many requests with the
\* header came before it; the counter is the number of requests that
\* arrived without the header.
C31_ExistingIdKeptNoIdConsumed ==
    LET Made(i) == Cardinality({j \in 1..(i - 1) : handled[j].in.header = "none"})
    IN /\ \A i \in 1..Len(handled) :
             IF handled[i].in.header # "none"
               THEN handled[i].out.header = handled[i].in.header
               ELSE /\ handled[i].out.header = ToString(Made(i))
                    /\ handled[i].out.ext = ToString(Made(i))
       /\ counter = Made(Len(handled) + 1)

\* A request without the header got "0", the next one kept its "foo", and
\* the one after it, without the header, got "1".
C31_Witness ==
    /\ Len(handled) = 3
    /\ handled[1].in.header = "none" /\ handled[1].out.header = "0"
    /\ handled[2].in.header = "foo" /\ handled[2].out.header = "foo"
    /\ handled[3].in.header = "none" /\ handled[3].out.header = "1"

\* C32: over all the clones of one Limited, the first `limit` calls of
\* redirect are answered Follow and every later one Stop; the Follow
\* answers never outnumber the limit, and the counter, the limit less the
\* Follow answers, never goes below zero.
C32_FollowAtMostMax ==
    LET Follows == Cardinality({i \in 1..Len(answers) : answers[i].action = "Follow"})
    IN /\ \A i \in 1..Len(answers) :
             answers[i].action = IF i <= limit THEN "Follow" ELSE "Stop"
       /\ Follows <= limit
       /\ remaining = limit - Follows
       /\ remaining >= 0

\* Limited::new(2): two clones were each answered Follow, and the next
\* call was answered Stop.
C32_Witness ==
    /\ limit = 2
    /\ Len(answers) = 3
    /\ answers[1].action = "Follow" /\ answers[2].action = "Follow"
    /\ answers[1].by # answers[2].by
    /\ answers[3].action = "Stop"
    /\ remaining = 0

(***************************************************************************)
(* Properties of the loops without a bound (SpecLimitCoop, SpecRetryFair). *)
(***************************************************************************)

\* C33: with a policy that answers Retry to every check (with_backoff and
\* max = 0) a call of Limit::call never returns and never reaches the inner
\* service, and as long as it is polled it checks again and again: every
\* check is followed by another one.
C33_AlwaysRetryNeverReturns ==
    (max = 0 /\ backoff)
      => \A t \in Callers :
            /\ [](/\ pc[t] \in {"idle", "check", "locked"}
                  /\ outcome[t] = "none"
                  /\ held[t] = 0)
            /\ (pc[t] = "check") ~> (pc[t] = "locked")
            /\ (pc[t] = "locked") ~> (pc[t] = "check" /\ backoffFut[t] = "dropped")

\* A call was refused with Retry and is about to check again.
C33_Witness ==
    /\ max = 0 /\ backoff
    /\ \E t \in Callers : pc[t] = "check" /\ backoffFut[t] = "dropped" /\ Polled(t)

\* C34: Retry::call goes on as long as the policy answers true and returns
\* exactly when the policy answered false or the request could not be
\* cloned: a call in progress for a cloned request has had nothing but
\* true answers, a call that returned for a cloned request has had exactly
\* one false answer, its last, and a call whose request could not be cloned
\* ends by returning.
C34_ReturnsExactlyOnFalseOrNoClone ==
    /\ (cloned # <<>> /\ rpc \in {"loop", "inner", "consult"}) => trues = retries
    /\ (cloned # <<>> /\ rpc = "done") => trues = retries - 1
    /\ (cloned = <<>> /\ rpc \notin {"idle", "loop", "inner", "consult"}) => rpc = "done"

(***************************************************************************)
(* Properties of the consuming bridge: readiness and clones (SpecBridge).  *)
(***************************************************************************)

\* C35: on every wrapper instance, in every state, poll_ready answers Ok(())
\* only while the inner service is present, and a call made right after a
\* poll_ready that answered Ok(()) does not panic (lateUse is the outcome of
\* the last operation made on the instance since its first call).
C35_ReadyMeansPresent ==
    /\ [](\A w \in exists :
            (IF variant[w] = "classic_wrapper"
               THEN poll_ready_classic_wrapper(inner[w])
               ELSE poll_ready_into_classic(inner[w])) = "Ok"
              => inner[w] = "Some")
    /\ [][\A w \in exists : lateUse[w] = "Ok" => lateUse'[w] # "panic"]_vars

\* C36: a clone starts in the state of the instance it was cloned from
\* (Available from an Available one, Consumed from a Consumed one), taking
\* it changes no existing instance, and an operation that changes the
\* state of one instance leaves every other instance as it was.
C36_ClonesAreIndependent ==
    /\ [][\A n \in exists' \ exists :
            /\ inner'[n] \in {inner[w] : w \in exists}
            /\ \A w \in exists : inner'[w] = inner[w]]_vars
    /\ [][\A w \in exists :
            inner'[w] # inner[w]
              => \A u \in exists \ {w} : inner'[u] = inner[u]]_vars

\* A clone was taken, one of the two instances was called, and the other
\* is still Available.
C36_Witness ==
    \E w, u \in exists :
        /\ called[w] /\ inner[w] = "None"
        /\ ~called[u] /\ inner[u] = "Some"

(***************************************************************************)
(* Properties of the re-entrant bridge, continued (SpecAsync).             *)
(***************************************************************************)

\* C37: over all the callers of one AsyncServiceWrapper at most one
\* classic response future is in flight; the call awaiting it holds the
\* mutex, goes on holding it as long as it awaits, and meanwhile no other
\* call is past the lock.
C37_OneResponseInFlight ==
    /\ [](/\ Cardinality({c \in AsyncCallers : apc[c] = "response"}) <= 1
          /\ \A c \in AsyncCallers :
                apc[c] = "response"
                  => /\ amutex = {c}
                     /\ \A o \in AsyncCallers \ {c} : apc[o] \in {"idle", "lock", "done"})
    /\ [][\A c \in AsyncCallers :
            (apc[c] = "call" /\ apc'[c] = "response") => amutex' = {c}]_vars

\* One call awaits the classic response while another waits for the mutex.
C37_Witness ==
    \E c1, c2 \in AsyncCallers :
        /\ c1 # c2
        /\ apc[c1] = "response" /\ amutex = {c1}
        /\ apc[c2] = "lock"

\* C38: when the readiness step of a call returns an error, the call ends
\* at once with that error and with the mutex released, without having
\* made the classic call; as long as that is its result the caller is not
\* in a call and does not hold the mutex.
C38_ReadyErrSkipsCall ==
    /\ [][\A c \in AsyncCallers :
            (aout[c] = "none" /\ aout'[c] = "ReadyErr")
              => /\ apc[c] = "ready" /\ apc'[c] = "done"
                 /\ lastOp' = [by |-> c, op |-> "poll_ready"]
                 /\ amutex = {c} /\ amutex' = {}]_vars
    /\ [](\A c \in AsyncCallers :
            aout[c] = "ReadyErr" => apc[c] \in {"done", "idle"} /\ c \notin amutex)

\* A call ended with the readiness error, and afterwards another call got
\* the mutex, passed its readiness step and made its classic call.
C38_Witness ==
    \E c1, c2 \in AsyncCallers :
        /\ c1 # c2
        /\ apc[c1] = "done" /\ aout[c1] = "ReadyErr"
        /\ apc[c2] = "response" /\ amutex = {c2}
        /\ lastOp = [by |-> c2, op |-> "call"]

====
